---------------------------- MODULE Spec2Model ----------------------------
(***************************************************************************)
(* Model of the YouTrack "open sprint issues -> Todo tasks" synchronisation *)
(* of crates/server/src/integrations/youtrack_open.rs, and of the request   *)
(* handler of crates/server/src/routes/integrations.rs that calls it.       *)
(*                                                                          *)
(* Strings are sequences of one-character strings, so that formatting,      *)
(* prefix tests and ASCII case folding are computed as the code computes    *)
(* them.  Option<T> is a record [some |-> BOOLEAN, v |-> T].                *)
(***************************************************************************)
EXTENDS Naturals, Sequences, FiniteSets, TLC

VARIABLES
    store,      \* the task table: the sequence of rows, in insertion order
    initial,    \* the task table as it was before the first invocation
    inv,        \* per invocation slot: the locals of sync_open_sprint_issues_to_todo
    prev,       \* the invocation that last returned (for run-to-run comparisons)
    odd_id,     \* history: the tracker has returned an issue id that contains "]"
    arg,        \* input of the pure function under check
    ret         \* its result

vars == <<store, initial, inv, prev, odd_id, arg, ret>>

---------------------------------------------------------------------------
(* Bounds *)

\* custom fields per issue drawn for the classifier
MaxFields == 2
\* largest sprint the pagination specification draws
MaxIssues == 310

---------------------------------------------------------------------------
(* Strings *)

Upper == <<"A","B","C","D","E","F","G","H","I","J","K","L","M",
           "N","O","P","Q","R","S","T","U","V","W","X","Y","Z">>
Lower == <<"a","b","c","d","e","f","g","h","i","j","k","l","m",
           "n","o","p","q","r","s","t","u","v","w","x","y","z">>

\* the lower-case letter of each of A-Z
Fold == [c \in {Upper[i] : i \in DOMAIN Upper} |->
            Lower[CHOOSE i \in DOMAIN Upper : Upper[i] = c]]

\* u8::to_ascii_lowercase: only A-Z are folded
to_ascii_lowercase(c) == IF c \in DOMAIN Fold THEN Fold[c] ELSE c

\* str::eq_ignore_ascii_case, mutated: compares exactly
eq_exact_case(a, b) == a = b

\* str::eq_ignore_ascii_case
eq_ignore_ascii_case(a, b) ==
    /\ Len(a) = Len(b)
    /\ \A i \in DOMAIN a : to_ascii_lowercase(a[i]) = to_ascii_lowercase(b[i])

\* str::starts_with
starts_with(s, p) ==
    /\ Len(p) <= Len(s)
    /\ SubSeq(s, 1, Len(p)) = p

\* char::is_whitespace on the characters used here
is_whitespace(c) == c \in {" ", "\n", "\t"}

\* str::trim().is_empty()
is_blank(s) == \A i \in DOMAIN s : is_whitespace(s[i])

None == [some |-> FALSE]
Some(x) == [some |-> TRUE, v |-> x]

---------------------------------------------------------------------------
(* serde_json::Value, as far as the classifier looks into it *)

JNull == [kind |-> "null"]
JString(s) == [kind |-> "string", s |-> s]
JNumber == [kind |-> "number"]
\* an object: name is the member "name" (a Value) or JMissing
JMissing == [kind |-> "missing"]
JObject(n) == [kind |-> "object", name |-> n]

\* Value::as_str
as_str(v) == IF v.kind = "string" THEN Some(v.s) ELSE None

\* Value::get("name")
get_name(v) ==
    IF v.kind = "object" /\ v.name.kind # "missing" THEN Some(v.name) ELSE None

\* YouTrackCustomField; value: Option<Value> (JSON null and a missing key are None)
CustomField(n, v) == [name |-> n, value |-> v]

\* YouTrackIssue
Issue(id, summary, description, fields) ==
    [id_readable |-> id, summary |-> summary,
     description |-> description, custom_fields |-> fields]

---------------------------------------------------------------------------
(* The classifier *)

\* Iterator::find on custom_fields, mutated: the last field the predicate accepts
find_field_last(fields, state_field, i) ==
    LET hits == {k \in i..Len(fields) : eq_ignore_ascii_case(fields[k].name, state_field)}
    IN  IF hits = {} THEN None
        ELSE Some(fields[CHOOSE k \in hits : \A h \in hits : h <= k])

\* Iterator::find on custom_fields: the first field the predicate accepts
RECURSIVE find_field(_, _, _)
find_field(fields, state_field, i) ==
    IF i > Len(fields) THEN None
    ELSE IF eq_ignore_ascii_case(fields[i].name, state_field) THEN Some(fields[i])
    ELSE find_field(fields, state_field, i + 1)

\* youtrack_state_value, mutated: the field name is compared exactly
youtrack_state_value_exact(issue, state_field) ==
    LET hits == SelectSeq(issue.custom_fields,
                          LAMBDA f : eq_exact_case(f.name, state_field))
    IN  IF hits = <<>> THEN None
        ELSE IF ~hits[1].value.some THEN None
        ELSE LET value == hits[1].value.v
                 name == get_name(value)
             IN  IF name.some /\ as_str(name.v).some THEN as_str(name.v)
                 ELSE as_str(value)

youtrack_state_value(issue, state_field) ==
    LET field == find_field(issue.custom_fields, state_field, 1)
    IN  IF ~field.some THEN None
        ELSE IF ~field.v.value.some THEN None
        ELSE LET value == field.v.value.v
                 name == get_name(value)
             IN  IF name.some /\ as_str(name.v).some THEN as_str(name.v)
                 ELSE as_str(value)

is_open_issue(issue, state_field, open_value) ==
    LET v == youtrack_state_value(issue, state_field)
    IN  v.some /\ eq_ignore_ascii_case(v.v, open_value)

---------------------------------------------------------------------------
(* Titles, URLs, descriptions *)

\* issue_title_prefix, mutated: the closing "] " is left out
issue_title_prefix_open(issue_id_readable) == <<"[">> \o issue_id_readable

\* format!("[{issue_id_readable}] ")
issue_title_prefix(issue_id_readable) ==
    <<"[">> \o issue_id_readable \o <<"]", " ">>

\* normalize_base_url on Url::as_str: a trailing slash is added when missing
normalize_base_url(base) ==
    IF base # <<>> /\ base[Len(base)] = "/" THEN base ELSE base \o <<"/">>

RECURSIVE path_encode(_)
\* the URL parser's path percent-encoding, on the characters used here: a space
\* becomes %20
path_encode(str) ==
    IF str = <<>> THEN <<>>
    ELSE (IF Head(str) = " " THEN <<"%","2","0">> ELSE <<Head(str)>>)
         \o path_encode(Tail(str))

\* the first position from `from` on at which s holds a character of cs, or
\* Len(s) + 1 when there is none
find_any(s, cs, from) ==
    LET hits == {i \in from..Len(s) : s[i] \in cs}
    IN  IF hits = {} THEN Len(s) + 1
        ELSE CHOOSE i \in hits : \A h \in hits : i <= h

\* the last position at which s holds c, or 0
rfind(s, c) ==
    LET hits == {i \in DOMAIN s : s[i] = c}
    IN  IF hits = {} THEN 0
        ELSE CHOOSE i \in hits : \A h \in hits : h <= i

\* Url::join of a relative path on Url::as_str of a hierarchical base: the base
\* loses its query, its fragment and what follows the last "/" of its path, and
\* the percent-encoded reference is put in their place
join(base, reference) ==
    LET location == SubSeq(base, 1, find_any(base, {"?", "#"}, 1) - 1)
    IN  SubSeq(location, 1, rfind(location, "/")) \o path_encode(reference)

\* youtrack_base.join(&format!("issue/{issue_id_readable}")); the join does not
\* fail on the bases and ids drawn here, so the `?` after it is never taken
issue_url(youtrack_base, issue_id_readable) ==
    join(youtrack_base, <<"i","s","s","u","e","/">> \o issue_id_readable)

\* the description block of the loop body
build_description(url, issue) ==
    <<"Y","o","u","T","r","a","c","k",":"," ">> \o url \o <<"\n">>
    \o (IF issue.description.some /\ ~is_blank(issue.description.v)
        THEN <<"\n">> \o issue.description.v
        ELSE <<>>)

\* the title, mutated: the prefix is left out
build_title_bare(prefix, issue) == issue.summary

\* format!("{prefix}{}", issue.summary)
build_title(prefix, issue) == prefix \o issue.summary

\* CreateTask, mutated: the status is left to the store's choice of InProgress
CreateTaskInProgress(project_id, title, description) ==
    [project_id |-> project_id, title |-> title, description |-> Some(description),
     status |-> "InProgress", parent_workspace_id |-> None, image_ids |-> None,
     shared_task_id |-> None]

\* CreateTask
CreateTask(project_id, title, description) ==
    [project_id |-> project_id, title |-> title, description |-> Some(description),
     status |-> "Todo", parent_workspace_id |-> None, image_ids |-> None,
     shared_task_id |-> None]

\* HeaderValue::from_str: visible ASCII, space and tab only
header_value_ok(s) == \A i \in DOMAIN s : s[i] \notin {"\n", "\r"}

---------------------------------------------------------------------------
(* The task store (db::models::task) *)

\* Task::find_by_project_id_and_title_prefix: a task of the project whose title
\* has the prefix, or none
find_by_project_id_and_title_prefix(rows, project_id, prefix) ==
    LET hits == SelectSeq(rows, LAMBDA t :
                    t.project_id = project_id /\ starts_with(t.title, prefix))
    IN  IF hits = <<>> THEN None ELSE Some(hits[1])

\* Task::create: one new row under a fresh id; nothing else changes
TaskCreate(rows, payload, task_id) ==
    Append(rows, [id |-> task_id, project_id |-> payload.project_id,
                  title |-> payload.title, description |-> payload.description,
                  status |-> payload.status,
                  parent_workspace_id |-> payload.parent_workspace_id,
                  shared_task_id |-> payload.shared_task_id])

\* Uuid::new_v4: an id no row has
new_v4(rows) == Len(rows) + 1

---------------------------------------------------------------------------
(* Inputs: issues, sprints as the tracker holds them, projects, stores *)

StateName == <<"S","t","a","t","e">>
OpenName == <<"O","p","e","n">>
DoneName == <<"D","o","n","e">>

default_state_field == StateName
default_open_value == OpenName

OpenField == CustomField(StateName, Some(JObject(JString(OpenName))))
DoneField == CustomField(StateName, Some(JObject(JString(DoneName))))

IssueA   == Issue(<<"A">>, <<"s">>, None, <<OpenField>>)
\* the same issue id under another summary
IssueA2  == Issue(<<"A">>, <<"t">>, None, <<OpenField>>)
\* an id that extends "A] "
IssueAB  == Issue(<<"A","]"," ","B">>, <<"u">>, None, <<OpenField>>)
IssueB   == Issue(<<"B">>, <<"s">>, Some(<<"d">>), <<DoneField>>)
\* open through a differently cased field holding a plain string
IssueC   == Issue(<<"C">>, <<"c">>, Some(<<"d">>),
                  <<CustomField(<<"S","T","A","T","E">>, Some(JString(<<"o","p","e","n">>)))>>)

RECURSIVE Digits(_)
\* usize::to_string
Digits(n) ==
    LET d == <<"0","1","2","3","4","5","6","7","8","9">>
    IN  IF n < 10 THEN <<d[n + 1]>> ELSE Digits(n \div 10) \o <<d[(n % 10) + 1]>>

\* a resolved issue F-i
Filler(i) == Issue(<<"F","-">> \o Digits(i), <<"f">>, None, <<DoneField>>)
\* the resolved issues F-1 .. F-MaxIssues, built once
AllFillers == [i \in 1..MaxIssues |-> Filler(i)]
Fillers(n) == SubSeq(AllFillers, 1, n)

Cases == <<
    <<>>,
    <<IssueA>>,
    <<IssueB, IssueA>>,
    <<IssueA, IssueA2>>,
    <<IssueA, IssueAB>>,
    <<IssueC, IssueB>>,
    <<IssueA>> \o Fillers(99),
    <<IssueA>> \o Fillers(99) \o <<IssueC>> >>

CaseSprints == {[kind |-> "case", n |-> k] : k \in DOMAIN Cases}
FillerSprints == {[kind |-> "filler", n |-> k] : k \in 0..MaxIssues}

\* the issues of a sprint, in tracker order
TrackerIssues(sprint) ==
    IF sprint.kind = "case" THEN Cases[sprint.n] ELSE Fillers(sprint.n)

Min(a, b) == IF a <= b THEN a ELSE b

\* the tracker's answer to $skip, $top: the slice [skip, skip + top)
Page(issues, skip_, top_) == SubSeq(issues, skip_ + 1, Min(skip_ + top_, Len(issues)))

\* the project the sync targets, and another one
Project == "p1"
OtherProject == "p2"
\* Url::as_str of a base URL given without its trailing slash
Base == <<"/","/","t","/","y">>
Token == <<"k">>

UserTask(id, project_id, title) ==
    [id |-> id, project_id |-> project_id, title |-> title, description |-> None,
     status |-> "InProgress", parent_workspace_id |-> None, shared_task_id |-> None]

InitialStores == {
    <<>>,
    <<UserTask(1, "p2", <<"[","A","]"," ","x">>)>>,
    <<UserTask(1, "p1", <<"[","C","]"," ","o">>)>> }

---------------------------------------------------------------------------
(* sync_open_sprint_issues_to_todo: one step per block between two awaits *)

\* the page size of fetch_sprint_issues
top == 100

Procs == {1, 2}

Ok(x) == [ok |-> TRUE, v |-> x]
Err(kind, msg) == [ok |-> FALSE, kind |-> kind, msg |-> msg]

Idle ==
    [pc |-> "idle", project_id |-> "", base |-> <<>>, sprint |-> [kind |-> "case", n |-> 1],
     dry_run |-> FALSE, skip |-> 0, all |-> <<>>, requests |-> <<>>,
     open_issues |-> <<>>, idx |-> 0, payload |-> None,
     created |-> 0, skipped_existing |-> 0, created_titles |-> <<>>,
     log |-> <<>>, result |-> None, store0 |-> <<>>]

\* SyncSummary as built at the end of the routine
SyncSummary(l) ==
    [open_issues_total |-> Len(l.open_issues), created |-> l.created,
     skipped_existing |-> l.skipped_existing, dry_run |-> l.dry_run,
     created_titles |-> l.created_titles]

\* the end of one loop iteration: the next issue, or the summary
Advance(l) ==
    IF l.idx + 1 > Len(l.open_issues)
    THEN [l EXCEPT !.idx = l.idx + 1, !.pc = "done", !.result = Some(Ok(SyncSummary(l)))]
    ELSE [l EXCEPT !.idx = l.idx + 1, !.pc = "lookup"]

\* the filter after the fetch, mutated: every fetched issue is kept
filter_open_all(issues) == issues

\* issues.into_iter().filter(is_open_issue).collect()
filter_open(issues) ==
    SelectSeq(issues, LAMBDA i : is_open_issue(i, default_state_field, default_open_value))

\* the loop's exit test, mutated: a full page ends the loop too
last_page_le(batch_count) == batch_count <= top

\* batch_count < top
last_page(batch_count) == batch_count < top

\* skip += top, mutated: the offset advances by the page size less one
next_skip_short(skip_) == skip_ + top - 1

\* skip += top, mutated: the offset stays where it is
next_skip_stuck(skip_) == skip_

\* skip += top
next_skip(skip_) == skip_ + top

HasBracket(id) == \E i \in DOMAIN id : id[i] = "]"

\* what leaves the fetch loop and enters the for loop (or returns at once)
AfterFetch(l) ==
    LET open == filter_open(l.all)
        m == [l EXCEPT !.open_issues = open, !.idx = 1, !.pc = "lookup"]
    IN  IF open = <<>>
        THEN [m EXCEPT !.pc = "done", !.result = Some(Ok(SyncSummary(m)))]
        ELSE m

\* what is kept of an invocation once it has returned
Returned(l) ==
    [pc |-> l.pc, project_id |-> l.project_id, sprint |-> l.sprint,
     dry_run |-> l.dry_run, store0 |-> l.store0,
     result |-> IF l.pc = "done" THEN l.result ELSE None]

\* the invocation begins: base URL normalised, HTTP client built
Begin(p, project_id, base, token, sprint, dry_run) ==
    /\ inv[p].pc \in {"idle", "done", "failed"}
    /\ prev' = IF inv[p].pc = "idle" THEN prev ELSE Returned(inv[p])
    /\ LET l == [Idle EXCEPT !.project_id = project_id,
                             !.base = normalize_base_url(base),
                             !.sprint = sprint, !.dry_run = dry_run,
                             !.store0 = store]
       IN  inv' = [inv EXCEPT ![p] =
                IF header_value_ok(<<"B","e","a","r","e","r"," ">> \o token)
                THEN [l EXCEPT !.pc = "fetch"]
                ELSE [l EXCEPT !.pc = "failed",
                               !.result = Some(Err("InvalidInput", "token"))]]
    /\ UNCHANGED <<store, initial, odd_id, arg, ret>>

\* the `?` on a failed page request, mutated: the pages received so far are used
FetchFailSalvage(l, why) ==
    AfterFetch([l EXCEPT !.requests = Append(l.requests,
                                [skip |-> l.skip, top |-> top, ok |-> FALSE])])

\* the `?` on send, error_for_status and json: the error leaves the routine
FetchFailStep(l, why) ==
    [l EXCEPT !.requests = Append(l.requests, [skip |-> l.skip, top |-> top, ok |-> FALSE]),
              !.pc = "failed", !.result = Some(Err("Upstream", why))]

\* a page arrives and decodes
FetchPageOk(p) ==
    /\ inv[p].pc = "fetch"
    /\ LET l == inv[p]
           issues == Page(TrackerIssues(l.sprint), l.skip, top)
           m == [l EXCEPT !.requests = Append(l.requests,
                                              [skip |-> l.skip, top |-> top, ok |-> TRUE]),
                          !.all = l.all \o issues]
       IN  /\ inv' = [inv EXCEPT ![p] =
                    IF last_page(Len(issues)) THEN AfterFetch(m)
                    ELSE [m EXCEPT !.skip = next_skip(l.skip)]]
           /\ odd_id' = (odd_id \/ \E i \in DOMAIN issues : HasBracket(issues[i].id_readable))
    /\ UNCHANGED <<store, initial, prev, arg, ret>>

\* a page request fails: transport error, error status or undecodable body
FetchPageFail(p) ==
    /\ inv[p].pc = "fetch"
    /\ \E why \in {"request", "status", "decode"} :
         inv' = [inv EXCEPT ![p] = FetchFailStep(inv[p], why)]
    /\ UNCHANGED <<store, initial, prev, odd_id, arg, ret>>

\* the loop body, mutated: the lookup's answer is not consulted
LookupStepNoCheck(l, found) ==
    LET issue == l.open_issues[l.idx]
        prefix == issue_title_prefix(issue.id_readable)
        m == [l EXCEPT !.log = Append(l.log, [op |-> "find", idx |-> l.idx,
                                               prefix |-> prefix, ok |-> TRUE,
                                               found |-> found.some])]
        url == issue_url(l.base, issue.id_readable)
        title == build_title(prefix, issue)
        payload == CreateTask(l.project_id, title, build_description(url, issue))
    IN  IF l.dry_run
        THEN Advance([m EXCEPT !.created = l.created + 1,
                               !.created_titles = Append(l.created_titles, title)])
        ELSE [m EXCEPT !.pc = "create", !.payload = Some(payload)]

\* the loop body up to Task::create, mutated: dry_run is not consulted
LookupStepWet(l, found) ==
    LET issue == l.open_issues[l.idx]
        prefix == issue_title_prefix(issue.id_readable)
        m == [l EXCEPT !.log = Append(l.log, [op |-> "find", idx |-> l.idx,
                                               prefix |-> prefix, ok |-> TRUE,
                                               found |-> found.some])]
        url == issue_url(l.base, issue.id_readable)
        title == build_title(prefix, issue)
        payload == CreateTask(l.project_id, title, build_description(url, issue))
    IN  IF found.some
        THEN Advance([m EXCEPT !.skipped_existing = l.skipped_existing + 1])
        ELSE [m EXCEPT !.pc = "create", !.payload = Some(payload)]

\* the loop body, mutated: a skipped issue is not counted
LookupStepNoCount(l, found) ==
    LET issue == l.open_issues[l.idx]
        prefix == issue_title_prefix(issue.id_readable)
        m == [l EXCEPT !.log = Append(l.log, [op |-> "find", idx |-> l.idx,
                                               prefix |-> prefix, ok |-> TRUE,
                                               found |-> found.some])]
        url == issue_url(l.base, issue.id_readable)
        title == build_title(prefix, issue)
        payload == CreateTask(l.project_id, title, build_description(url, issue))
    IN  IF found.some
        THEN Advance(m)
        ELSE IF l.dry_run
        THEN Advance([m EXCEPT !.created = l.created + 1,
                               !.created_titles = Append(l.created_titles, title)])
        ELSE [m EXCEPT !.pc = "create", !.payload = Some(payload)]

\* the loop body from the lookup's answer up to Task::create
LookupStep(l, found) ==
    LET issue == l.open_issues[l.idx]
        prefix == issue_title_prefix(issue.id_readable)
        m == [l EXCEPT !.log = Append(l.log, [op |-> "find", idx |-> l.idx,
                                               prefix |-> prefix, ok |-> TRUE,
                                               found |-> found.some])]
        url == issue_url(l.base, issue.id_readable)
        title == build_title(prefix, issue)
        payload == CreateTask(l.project_id, title, build_description(url, issue))
    IN  IF found.some
        THEN Advance([m EXCEPT !.skipped_existing = l.skipped_existing + 1])
        ELSE IF l.dry_run
        THEN Advance([m EXCEPT !.created = l.created + 1,
                               !.created_titles = Append(l.created_titles, title)])
        ELSE [m EXCEPT !.pc = "create", !.payload = Some(payload)]

\* Task::find_by_project_id_and_title_prefix answers
Lookup(p) ==
    /\ inv[p].pc = "lookup"
    /\ LET l == inv[p]
           prefix == issue_title_prefix(l.open_issues[l.idx].id_readable)
           found == find_by_project_id_and_title_prefix(store, l.project_id, prefix)
       IN  inv' = [inv EXCEPT ![p] = LookupStep(l, found)]
    /\ UNCHANGED <<store, initial, prev, odd_id, arg, ret>>

\* Task::find_by_project_id_and_title_prefix fails
LookupFail(p) ==
    /\ inv[p].pc = "lookup"
    /\ LET l == inv[p]
           prefix == issue_title_prefix(l.open_issues[l.idx].id_readable)
       IN  inv' = [inv EXCEPT ![p] =
                [l EXCEPT !.log = Append(l.log, [op |-> "find", idx |-> l.idx,
                                                 prefix |-> prefix, ok |-> FALSE,
                                                 found |-> FALSE]),
                          !.pc = "failed", !.result = Some(Err("Store", "find"))]]
    /\ UNCHANGED <<store, initial, prev, odd_id, arg, ret>>

\* the loop body, mutated: a reported title goes to the front of created_titles
CreateStepFront(l) ==
    Advance([l EXCEPT !.log = Append(l.log, [op |-> "create", idx |-> l.idx,
                                             prefix |-> l.payload.v.title, ok |-> TRUE,
                                             found |-> FALSE]),
                      !.created = l.created + 1,
                      !.created_titles = <<l.payload.v.title>> \o l.created_titles,
                      !.payload = None])

\* the loop body after Task::create
CreateStep(l) ==
    Advance([l EXCEPT !.log = Append(l.log, [op |-> "create", idx |-> l.idx,
                                             prefix |-> l.payload.v.title, ok |-> TRUE,
                                             found |-> FALSE]),
                      !.created = l.created + 1,
                      !.created_titles = Append(l.created_titles, l.payload.v.title),
                      !.payload = None])

\* Task::create, mutated: the lookup is repeated and an existing task wins
CreateChecked(p) ==
    /\ inv[p].pc = "create"
    /\ LET l == inv[p]
           prefix == issue_title_prefix(l.open_issues[l.idx].id_readable)
           found == find_by_project_id_and_title_prefix(store, l.project_id, prefix)
       IN  IF found.some
           THEN /\ store' = store
                /\ inv' = [inv EXCEPT ![p] =
                        Advance([l EXCEPT !.skipped_existing = l.skipped_existing + 1,
                                          !.payload = None])]
           ELSE /\ store' = TaskCreate(store, l.payload.v, new_v4(store))
                /\ inv' = [inv EXCEPT ![p] = CreateStep(l)]
    /\ UNCHANGED <<initial, prev, odd_id, arg, ret>>

\* Task::create commits
Create(p) ==
    /\ inv[p].pc = "create"
    /\ store' = TaskCreate(store, inv[p].payload.v, new_v4(store))
    /\ inv' = [inv EXCEPT ![p] = CreateStep(inv[p])]
    /\ UNCHANGED <<initial, prev, odd_id, arg, ret>>

\* the `?` on Task::create, mutated: the error is dropped and the loop goes on
CreateFailSwallow(l) ==
    Advance([l EXCEPT !.log = Append(l.log, [op |-> "create", idx |-> l.idx,
                                             prefix |-> l.payload.v.title, ok |-> FALSE,
                                             found |-> FALSE]),
                      !.payload = None])

\* the `?` on Task::create: the error leaves the routine
CreateFailStep(l) ==
    [l EXCEPT !.log = Append(l.log, [op |-> "create", idx |-> l.idx,
                                     prefix |-> l.payload.v.title, ok |-> FALSE,
                                             found |-> FALSE]),
              !.pc = "failed", !.payload = None,
              !.result = Some(Err("Store", "create"))]

\* Task::create fails
CreateFail(p) ==
    /\ inv[p].pc = "create"
    /\ inv' = [inv EXCEPT ![p] = CreateFailStep(inv[p])]
    /\ UNCHANGED <<store, initial, prev, odd_id, arg, ret>>

---------------------------------------------------------------------------
(* Spec: invocations one after the other, in slot 1 *)

NoArg == [f |-> "none"]

Init ==
    /\ store \in InitialStores
    /\ initial = store
    /\ inv = [p \in Procs |-> Idle]
    /\ prev = Returned(Idle)
    /\ odd_id = FALSE
    /\ arg = NoArg
    /\ ret = None

Start ==
    \E sprint \in CaseSprints, dry_run \in BOOLEAN :
        Begin(1, Project, Base, Token, sprint, dry_run)

Next ==
    \/ Start
    \/ FetchPageOk(1)
    \/ FetchPageFail(1)
    \/ Lookup(1)
    \/ LookupFail(1)
    \/ Create(1)
    \/ CreateFail(1)

Spec == Init /\ [][Next]_vars

---------------------------------------------------------------------------
(* SpecFetch: one invocation against a sprint of 0..MaxIssues resolved issues *)

StartFetch ==
    /\ inv[1].pc = "idle"
    /\ \E sprint \in FillerSprints : Begin(1, Project, Base, Token, sprint, TRUE)

InitFetch ==
    /\ store = <<>>
    /\ initial = store
    /\ inv = [p \in Procs |-> Idle]
    /\ prev = Returned(Idle)
    /\ odd_id = FALSE
    /\ arg = NoArg
    /\ ret = None

NextFetch ==
    \/ StartFetch
    \/ FetchPageOk(1)
    \/ FetchPageFail(1)

SpecFetch == InitFetch /\ [][NextFetch]_vars

---------------------------------------------------------------------------
(* SpecClassify: is_open_issue on drawn issues *)

FieldNames == {<<"S","t">>, <<"s","T">>, <<"T","y">>}
FieldValues == {
    None,
    Some(JString(<<"O","p">>)),
    Some(JString(<<"C","l">>)),
    Some(JObject(JString(<<"o","P">>))),
    Some(JObject(JString(<<"C","l">>))),
    Some(JObject(JMissing)),
    Some(JObject(JNumber)),
    Some(JNumber) }
Fields == {CustomField(n, v) : n \in FieldNames, v \in FieldValues}

RECURSIVE SeqsUpTo(_, _)
\* the sequences over S of length at most n
SeqsUpTo(S, n) ==
    IF n = 0 THEN {<<>>}
    ELSE LET shorter == SeqsUpTo(S, n - 1)
         IN  shorter \cup {Append(q, x) : q \in {r \in shorter : Len(r) = n - 1}, x \in S}

ClassifyArgs ==
    {[f |-> "is_open_issue", issue |-> Issue(<<"A">>, <<"s">>, None, fs),
      state_field |-> sf, open_value |-> ov] :
        fs \in SeqsUpTo(Fields, MaxFields),
        sf \in {<<"S","t">>, <<"s","t">>},
        ov \in {<<"O","p">>, <<"o","p">>}}

InitClassify ==
    /\ store = <<>>
    /\ initial = store
    /\ inv = [p \in Procs |-> Idle]
    /\ prev = Returned(Idle)
    /\ odd_id = FALSE
    /\ arg \in ClassifyArgs
    /\ ret = None

Classify ==
    /\ arg.f = "is_open_issue"
    /\ ~ret.some
    /\ ret' = Some(is_open_issue(arg.issue, arg.state_field, arg.open_value))
    /\ UNCHANGED <<store, initial, inv, prev, odd_id, arg>>

NextClassify == Classify

SpecClassify == InitClassify /\ [][NextClassify]_vars

---------------------------------------------------------------------------
(* SpecConc: two invocations against the same project, steps interleaved *)

ConcSprints == {[kind |-> "case", n |-> k] : k \in 2..5}

StartConc(p) ==
    /\ inv[p].pc = "idle"
    /\ \E sprint \in ConcSprints, dry_run \in BOOLEAN :
         Begin(p, Project, Base, Token, sprint, dry_run)

NextConc ==
    \E p \in Procs :
        \/ StartConc(p)
        \/ FetchPageOk(p)
        \/ FetchPageFail(p)
        \/ Lookup(p)
        \/ LookupFail(p)
        \/ Create(p)
        \/ CreateFail(p)

SpecConc == InitFetch /\ [][NextConc]_vars

---------------------------------------------------------------------------
(* Claims *)

\* the issue ids the sprints hold
IssueIds ==
    {IssueA.id_readable, IssueAB.id_readable, IssueB.id_readable,
     IssueC.id_readable, Filler(1).id_readable}

\* the rows of a table that belong to project P and whose title starts with "[I] "
TasksFor(rows, P, I) ==
    {k \in DOMAIN rows :
        /\ rows[k].project_id = P
        /\ starts_with(rows[k].title, <<"[">> \o I \o <<"]", " ">>)}

FinishedOk(l) == l.pc = "done" /\ l.result.some /\ l.result.v.ok

\* C1 as stated: after any sequence of invocations, one after the other, a project
\* that held no task for issue id I holds at most one task whose title starts
\* with "[I] ".
C1_AtMostOneTaskPerIssue ==
    \A P \in {Project, OtherProject} : \A I \in IssueIds :
        TasksFor(initial, P, I) = {} => Cardinality(TasksFor(store, P, I)) <= 1

\* C1 amended: the same, as long as the tracker has returned no issue id that
\* contains "]".
C1_AtMostOneTaskPerPlainIssue ==
    ~odd_id => C1_AtMostOneTaskPerIssue

\* C1 witness: a second non-dry run met an issue whose task the first one created,
\* and a response listed an issue id twice.
C1_Witness ==
    /\ ~odd_id
    /\ FinishedOk(inv[1]) /\ ~inv[1].dry_run
    /\ inv[1].sprint.n = 4
    /\ inv[1].result.v.v.skipped_existing = 2
    /\ TasksFor(initial, Project, <<"A">>) = {}
    /\ Cardinality(TasksFor(store, Project, <<"A">>)) = 1

\* the second of two successful non-dry runs on the same project and sprint
SecondRun ==
    /\ FinishedOk(inv[1]) /\ ~inv[1].dry_run
    /\ prev.pc = "done" /\ ~prev.dry_run
    /\ prev.project_id = inv[1].project_id
    /\ prev.sprint = inv[1].sprint

\* C2: the second of two successful non-dry runs on the same project and sprint
\* creates nothing, leaves the store as it found it and skips every open issue.
C2_Idempotent ==
    SecondRun =>
        LET r == inv[1].result.v.v
        IN  /\ r.created = 0
            /\ r.created_titles = <<>>
            /\ store = inv[1].store0
            /\ r.skipped_existing = r.open_issues_total

\* C2 witness: the first run created tasks, the second run skipped them.
C2_Witness ==
    /\ SecondRun
    /\ prev.result.v.v.created >= 1
    /\ inv[1].result.v.v.skipped_existing >= 1

\* C3: while a dry-run invocation runs, and after it has returned or failed, the
\* store is what it was when the invocation began.
C3_DryRunKeepsStore ==
    \A p \in Procs :
        (inv[p].pc # "idle" /\ inv[p].dry_run) => store = inv[p].store0

\* C3 witness: a dry run reported a title it would create.
C3_Witness ==
    /\ FinishedOk(inv[1]) /\ inv[1].dry_run
    /\ inv[1].result.v.v.created >= 1

\* C4 as stated: a successful non-dry run that follows a successful dry run of the
\* same project and sprint from the same store creates exactly the titles the dry
\* run reported, in the same order.
C4_DryRunPredictsRun ==
    (/\ FinishedOk(inv[1]) /\ ~inv[1].dry_run
     /\ prev.pc = "done" /\ prev.dry_run
     /\ prev.project_id = inv[1].project_id
     /\ prev.sprint = inv[1].sprint
     /\ prev.store0 = inv[1].store0)
    => /\ prev.result.v.v.created_titles = inv[1].result.v.v.created_titles
       /\ prev.result.v.v.created = inv[1].result.v.v.created
       /\ inv[1].result.v.v.created_titles =
            [k \in 1..(Len(store) - Len(inv[1].store0)) |->
                store[Len(inv[1].store0) + k].title]

\* C5: once an invocation has passed the lookup for an issue, its Task::create adds
\* the task whatever the other invocation has created since.
C5_CreateNotRechecked ==
    [][\A p \in Procs :
        (inv[p].pc = "create" /\ inv'[p].pc \notin {"create", "failed"})
        => /\ Len(store') = Len(store) + 1
           /\ store'[Len(store')].title = inv[p].payload.v.title]_vars

\* C5 witness: both invocations have returned and the project holds two tasks
\* whose title starts with "[A] ", none of which was there before.
C5_Witness ==
    /\ \A p \in Procs : FinishedOk(inv[p]) /\ ~inv[p].dry_run
    /\ ~odd_id
    /\ Cardinality(TasksFor(store, Project, <<"A">>)) = 2

\* the fetch loop of invocation l has returned its vector
Fetched(l) == l.pc \in {"lookup", "create", "done"} \/ (l.pc = "failed" /\ l.log # <<>>)

\* C6: against a tracker that serves the slices of a fixed list of N issues, the
\* fetch sends N div 100 + 1 requests and returns the N issues, each once, in
\* tracker order.
C6_PaginationComplete ==
    Fetched(inv[1]) =>
        LET issues == TrackerIssues(inv[1].sprint)
        IN  /\ Len(inv[1].requests) = (Len(issues) \div 100) + 1
            /\ inv[1].all = issues
            /\ (Len(issues) = 237 => Len(inv[1].requests) = 3)
            /\ (Len(issues) = 300 => Len(inv[1].requests) = 4)

\* C6 witness: 300 issues came in four requests, the last page empty.
C6_Witness ==
    /\ Fetched(inv[1])
    /\ Len(inv[1].all) = 300
    /\ Len(inv[1].requests) = 4
    /\ inv[1].requests[4].skip = 300

\* C7: a failed page request is the last request of the invocation, the
\* invocation has failed, no store operation was made and the store is as it was.
C7_TrackerFailureAborts ==
    \A k \in DOMAIN inv[1].requests :
        ~inv[1].requests[k].ok =>
            /\ k = Len(inv[1].requests)
            /\ \A j \in 1..(k - 1) : inv[1].requests[j].skip # inv[1].requests[k].skip
            /\ inv[1].pc = "failed"
            /\ inv[1].result.v.ok = FALSE
            /\ inv[1].log = <<>>
            /\ inv[1].created = 0 /\ inv[1].skipped_existing = 0
            /\ store = inv[1].store0

\* C7 witness: the second page request failed after a first page that held an
\* open issue, in a non-dry run.
C7_Witness ==
    /\ inv[1].pc = "failed" /\ ~inv[1].dry_run
    /\ Len(inv[1].requests) = 2 /\ ~inv[1].requests[2].ok
    /\ Len(inv[1].all) = 100
    /\ filter_open(inv[1].all) # <<>>

\* the rows the invocation has added: those after the rows it found
Added(l) == SubSeq(store, Len(l.store0) + 1, Len(store))

\* C8: a failed store operation in a non-dry run is the last store operation of
\* the invocation; the invocation has failed with an error and no summary, the
\* tasks created for the issues before it are in the store, and no issue after it
\* was looked up or created.
C8_StoreFailureAborts ==
    \A k \in DOMAIN inv[1].log :
        (~inv[1].log[k].ok /\ ~inv[1].dry_run) =>
            /\ k = Len(inv[1].log)
            /\ inv[1].pc = "failed"
            /\ inv[1].result.v.ok = FALSE
            /\ \A j \in DOMAIN inv[1].log : inv[1].log[j].idx <= inv[1].log[k].idx
            /\ inv[1].idx = inv[1].log[k].idx
            /\ SubSeq(store, 1, Len(inv[1].store0)) = inv[1].store0
            /\ [j \in DOMAIN Added(inv[1]) |-> Added(inv[1])[j].title] = inv[1].created_titles
            /\ Len(inv[1].created_titles) = inv[1].created
            /\ inv[1].created + inv[1].skipped_existing = inv[1].idx - 1

\* C8 witness: the creation for the second open issue failed after the first
\* issue's task was created.
C8_Witness ==
    /\ inv[1].pc = "failed" /\ ~inv[1].dry_run
    /\ inv[1].idx = 2
    /\ inv[1].log # <<>> /\ inv[1].log[Len(inv[1].log)].op = "create"
    /\ inv[1].created = 1
    /\ Len(store) = Len(inv[1].store0) + 1

\* the same text but for the case of the letters A-Z
SameIgnoringCase(a, b) ==
    [i \in DOMAIN a |-> to_ascii_lowercase(a[i])] = [i \in DOMAIN b |-> to_ascii_lowercase(b[i])]

\* a field's resolved value: the value's name when it is an object with a string
\* name, the value itself when it is a string
Resolved(f) ==
    IF ~f.value.some THEN None
    ELSE IF f.value.v.kind = "object" /\ f.value.v.name.kind = "string"
         THEN Some(f.value.v.name.s)
    ELSE IF f.value.v.kind = "string" THEN Some(f.value.v.s)
    ELSE None

\* field i of the argument is named like the state field
Named(i) == SameIgnoringCase(arg.issue.custom_fields[i].name, arg.state_field)

\* field i of the argument resolves to the open value
HoldsOpen(i) ==
    /\ Resolved(arg.issue.custom_fields[i]).some
    /\ SameIgnoringCase(Resolved(arg.issue.custom_fields[i]).v, arg.open_value)

\* C9 as stated: is_open_issue is true exactly for the issues that have a field
\* named like the state field whose resolved value is the open value.
C9_OpenIffSomeFieldMatches ==
    ret.some =>
        (ret.v <=> \E i \in DOMAIN arg.issue.custom_fields : Named(i) /\ HoldsOpen(i))

\* C9 amended: is_open_issue is true exactly for the issues whose first field named
\* like the state field resolves to the open value.
C9_OpenIffFirstFieldMatches ==
    ret.some =>
        (ret.v <=> \E i \in DOMAIN arg.issue.custom_fields :
                        /\ Named(i) /\ HoldsOpen(i)
                        /\ \A j \in 1..(i - 1) : ~Named(j))

\* C9 witness: an issue classified as open through a field whose name and value
\* differ from the arguments in case, with an unrelated field before it.
C9_Witness ==
    /\ ret.some /\ ret.v
    /\ Len(arg.issue.custom_fields) = 2
    /\ ~Named(1) /\ Named(2)
    /\ arg.issue.custom_fields[2].name # arg.state_field
    /\ Resolved(arg.issue.custom_fields[2]).v # arg.open_value

\* the positions of the fetched issues that is_open_issue accepts
OpenAt(l) ==
    {i \in DOMAIN l.all : is_open_issue(l.all[i], default_state_field, default_open_value)}

\* C10: every lookup, creation and reported title belongs to a fetched issue that
\* is_open_issue accepts; the counters count those issues only, and
\* open_issues_total is their number.
C10_ClosedNeverConsidered ==
    LET l == inv[1]
        open == OpenAt(l)
        TitleOf(i) == <<"[">> \o l.all[i].id_readable \o <<"]", " ">> \o l.all[i].summary
        PrefixOf(i) == <<"[">> \o l.all[i].id_readable \o <<"]", " ">>
    IN  /\ \A k \in DOMAIN l.log :
              \E i \in open :
                  l.log[k].prefix = IF l.log[k].op = "find" THEN PrefixOf(i) ELSE TitleOf(i)
        /\ \A k \in DOMAIN l.created_titles :
              \E i \in open : l.created_titles[k] = TitleOf(i)
        /\ l.created + l.skipped_existing <= Cardinality(open)
        /\ Cardinality({k \in DOMAIN l.log : l.log[k].op = "find"}) <= Cardinality(open)
        /\ FinishedOk(l) =>
              /\ l.result.v.v.open_issues_total = Cardinality(open)
              /\ l.result.v.v.created + l.result.v.v.skipped_existing = Cardinality(open)

\* C10 witness: a run over a sprint with a resolved issue before an open one has
\* returned, having created the open issue's task.
C10_Witness ==
    /\ FinishedOk(inv[1]) /\ ~inv[1].dry_run
    /\ inv[1].all = <<IssueB, IssueA>>
    /\ inv[1].result.v.v.open_issues_total = 1
    /\ inv[1].result.v.v.created = 1


---------------------------------------------------------------------------
(* C15: order *)

Finds(l) == SelectSeq(l.log, LAMBDA e : e.op = "find")
Creates(l) == SelectSeq(l.log, LAMBDA e : e.op = "create")

\* "[id] summary"
TitleOf(issue) == <<"[">> \o issue.id_readable \o <<"]", " ">> \o issue.summary

\* C15: in a successful invocation the open issues are the tracker's open issues
\* in tracker order, the k-th lookup is for the k-th of them, creations follow in
\* increasing issue position, and created_titles lists the titles "[id] summary"
\* of the issues whose lookup found nothing, in that order.
C15_OrderPreserved ==
    LET l == inv[1]
        finds == Finds(l)
        creates == Creates(l)
        kept == SelectSeq(finds, LAMBDA e : ~e.found)
    IN  FinishedOk(l) =>
          /\ l.open_issues = SelectSeq(TrackerIssues(l.sprint), LAMBDA i :
                                 is_open_issue(i, default_state_field, default_open_value))
          /\ Len(finds) = Len(l.open_issues)
          /\ \A k \in DOMAIN finds :
                /\ finds[k].idx = k
                /\ finds[k].prefix = <<"[">> \o l.open_issues[k].id_readable \o <<"]", " ">>
          /\ \A j, k \in DOMAIN creates : j < k => creates[j].idx < creates[k].idx
          /\ \A k \in DOMAIN creates :
                creates[k].prefix = TitleOf(l.open_issues[creates[k].idx])
          /\ l.result.v.v.created_titles =
                [k \in 1..Len(kept) |-> TitleOf(l.open_issues[kept[k].idx])]

\* a non-dry run over a sprint of 101 issues on two pages, the first and the last
\* of them open, has created both titles in tracker order
C15_Witness ==
    /\ FinishedOk(inv[1]) /\ ~inv[1].dry_run
    /\ Len(inv[1].requests) = 2
    /\ inv[1].result.v.v.created_titles = <<TitleOf(IssueA), TitleOf(IssueC)>>


---------------------------------------------------------------------------
(* C16: the pagination protocol *)

\* the number of issues the tracker put on the page that answered request k
Held(l, k) == Len(Page(TrackerIssues(l.sprint), l.requests[k].skip, l.requests[k].top))

\* C16: the k-th request of a fetch carries $skip = 100 * (k - 1) and $top = 100;
\* a request is followed by another only if its page held at least 100 issues,
\* the loop is still requesting only after such pages, and it has stopped after
\* an answered request only if that page held fewer than 100 issues.
C16_PaginationProtocol ==
    LET l == inv[1]
        n == Len(l.requests)
    IN  /\ \A k \in 1..n : l.requests[k].skip = 100 * (k - 1) /\ l.requests[k].top = 100
        /\ \A k \in 1..n : k < n => (l.requests[k].ok /\ Held(l, k) >= 100)
        /\ (l.pc = "fetch" /\ n > 0) => (l.requests[n].ok /\ Held(l, n) >= 100)
        /\ (l.pc \notin {"idle", "fetch"} /\ n > 0 /\ l.requests[n].ok) => Held(l, n) < 100

\* a sprint of 300 issues: three full pages, then a fourth request at $skip = 300
\* that is answered with an empty page and ends the fetch
C16_Witness ==
    /\ inv[1].pc = "done"
    /\ Len(TrackerIssues(inv[1].sprint)) = 300
    /\ Len(inv[1].requests) = 4
    /\ inv[1].requests[4] = [skip |-> 300, top |-> 100, ok |-> TRUE]


---------------------------------------------------------------------------
(* SpecFetchLive: one fetch against a tracker that answers every request *)

\* the requests one fetch is followed for
MaxRequests == 6

\* the tracker's answer to the pending request arrives
Response ==
    /\ Len(inv[1].requests) < MaxRequests
    /\ FetchPageOk(1)

NextFetchLive ==
    \/ StartFetch
    \/ Response

\* every request is answered in the end: the answer, once pending, is not
\* withheld forever
SpecFetchLive == InitFetch /\ [][NextFetchLive]_vars /\ WF_vars(Response)

\* C17: a fetch that is requesting pages from a tracker serving the slices of a
\* finite list stops requesting and returns, provided every request is answered.
C17_PaginationTerminates ==
    (inv[1].pc = "fetch") ~> (inv[1].pc = "done" /\ inv[1].result.some)

\* the fetch of the longest sprint has returned after its fourth page
C17_Witness ==
    /\ inv[1].pc = "done" /\ inv[1].result.some
    /\ Len(inv[1].all) = MaxIssues
    /\ Len(inv[1].requests) = 4


---------------------------------------------------------------------------
(* C18: the first matching field decides *)

\* C18: when the first field named like the state field has no value, a value
\* that is neither a string nor an object with a string name, or a value other
\* than the open value, is_open_issue is false whatever the later fields hold.
C18_FirstMatchWins ==
    ret.some =>
        \A i \in DOMAIN arg.issue.custom_fields :
            (/\ Named(i)
             /\ \A j \in 1..(i - 1) : ~Named(j)
             /\ ~HoldsOpen(i)) => ~ret.v

\* an issue with two fields named like the state field, the first without a
\* usable value and the second holding the open value, is classified as not open
C18_Witness ==
    /\ ret.some /\ ~ret.v
    /\ Len(arg.issue.custom_fields) = 2
    /\ Named(1) /\ Named(2)
    /\ ~Resolved(arg.issue.custom_fields[1]).some
    /\ HoldsOpen(2)


---------------------------------------------------------------------------
(* C19: the frame of an invocation *)

\* C19: at every point of an invocation the tasks the store held when it began
\* are still there, unchanged and in place; every task after them is in the
\* target project, has status Todo, no parent workspace and no shared task, and
\* carries the title "[id] summary" of a fetched open issue.
C19_OnlyAddsTasks ==
    LET l == inv[1]
        open == OpenAt(l)
        titles == {TitleOf(l.all[i]) : i \in open}
    IN  l.pc # "idle" =>
          /\ Len(store) >= Len(l.store0)
          /\ SubSeq(store, 1, Len(l.store0)) = l.store0
          /\ SubSeq(store, 1, Len(initial)) = initial
          /\ \A k \in (Len(l.store0) + 1)..Len(store) :
                /\ store[k].project_id = l.project_id
                /\ store[k].status = "Todo"
                /\ store[k].parent_workspace_id = None
                /\ store[k].shared_task_id = None
                /\ store[k].title \in titles

\* a non-dry run on a store that held a task in progress has added a task and
\* left the old one as it was
C19_Witness ==
    /\ FinishedOk(inv[1]) /\ ~inv[1].dry_run
    /\ inv[1].store0 # <<>>
    /\ Len(store) > Len(inv[1].store0)
    /\ store[1] = inv[1].store0[1]
    /\ store[1].status = "InProgress"
    /\ store[Len(store)].status = "Todo"


---------------------------------------------------------------------------
(* C20: the summary's accounting *)

\* C20: a returned summary has created + skipped_existing = open_issues_total,
\* as many created_titles as created, and the dry_run flag of the call; after a
\* non-dry run created is the number of tasks the store gained since the call
\* began, and after a dry run the store gained none.
C20_SummaryAccounting ==
    LET l == inv[1]
    IN  FinishedOk(l) =>
          LET summary == l.result.v.v
          IN  /\ summary.created + summary.skipped_existing = summary.open_issues_total
              /\ Len(summary.created_titles) = summary.created
              /\ summary.dry_run = l.dry_run
              /\ ~l.dry_run => summary.created = Len(store) - Len(l.store0)
              /\ l.dry_run => Len(store) = Len(l.store0)

\* a non-dry run that created one task and skipped one issue, and a dry run
\* before it on the same sprint
C20_Witness ==
    /\ FinishedOk(inv[1]) /\ ~inv[1].dry_run
    /\ inv[1].result.v.v.created = 1
    /\ inv[1].result.v.v.skipped_existing = 1
    /\ inv[1].result.v.v.open_issues_total = 2
    /\ prev.pc = "done" /\ prev.dry_run /\ prev.sprint = inv[1].sprint
    /\ prev.result.v.v.dry_run


---------------------------------------------------------------------------
(* URLs (the url crate), on http and https URLs over letters, digits and
   "/", "?", "#", "=", "-" *)

\* the schemes whose URLs have a host and a path of segments
SpecialSchemes == {<<"h","t","t","p">>, <<"h","t","t","p","s">>}

\* the first position from `from` on at which s holds something else than c
skip_all(s, c, from) ==
    LET rest == {i \in from..Len(s) : s[i] # c}
    IN  IF rest = {} THEN Len(s) + 1
        ELSE CHOOSE i \in rest : \A h \in rest : i <= h

\* Url::parse: scheme, host, path, query and fragment of an absolute URL. A
\* string that does not begin with "scheme:" is a relative reference and an
\* error; after the scheme every "/" before the host is passed over; a URL
\* without a host is an error; an empty path is "/".
url_parse(input) ==
    LET colon == find_any(input, {":", "/", "?", "#"}, 1)
        scheme == SubSeq(input, 1, colon - 1)
        host_start == skip_all(input, "/", colon + 1)
        host_end == find_any(input, {"/", "?", "#"}, host_start)
        path_end == find_any(input, {"?", "#"}, host_end)
        query_end == find_any(input, {"#"}, path_end)
    IN  IF colon > Len(input) \/ input[colon] # ":" \/ scheme \notin SpecialSchemes
        THEN Err("InvalidInput", "relative URL without a base")
        ELSE IF host_end = host_start
        THEN Err("InvalidInput", "empty host")
        ELSE Ok([scheme |-> scheme,
                 host |-> SubSeq(input, host_start, host_end - 1),
                 path |-> IF path_end = host_end THEN <<"/">>
                          ELSE SubSeq(input, host_end, path_end - 1),
                 query |-> IF query_end > path_end
                           THEN Some(SubSeq(input, path_end + 1, query_end - 1))
                           ELSE None,
                 fragment |-> IF query_end <= Len(input)
                              THEN Some(SubSeq(input, query_end + 1, Len(input)))
                              ELSE None])

\* Url::as_str
url_as_str(url) ==
    url.scheme \o <<":", "/", "/">> \o url.host \o url.path
    \o (IF url.query.some THEN <<"?">> \o url.query.v ELSE <<>>)
    \o (IF url.fragment.some THEN <<"#">> \o url.fragment.v ELSE <<>>)

RECURSIVE split(_, _)
\* str::split: the pieces between the separators, empty ones included
split(str, sep) ==
    LET i == find_any(str, {sep}, 1)
    IN  IF i > Len(str) THEN <<str>>
        ELSE <<SubSeq(str, 1, i - 1)>> \o split(SubSeq(str, i + 1, Len(str)), sep)

RECURSIVE join_segments(_, _)
\* [&str]::join
join_segments(segments, sep) ==
    IF segments = <<>> THEN <<>>
    ELSE IF Len(segments) = 1 THEN segments[1]
    ELSE segments[1] \o <<sep>> \o join_segments(Tail(segments), sep)

\* Url::path_segments().collect(): the path after its leading "/", split at "/"
path_segments(url) == split(Tail(url.path), "/")

\* Url::set_path, Url::set_query(None), Url::set_fragment(None)
set_path(url, path) == [url EXCEPT !.path = path]
set_query_none(url) == [url EXCEPT !.query = None]
set_fragment_none(url) == [url EXCEPT !.fragment = None]

\* the `.context("invalid base URL")?` of normalize_base_url
invalid_base(again) ==
    IF again.ok THEN again ELSE Err("InvalidInput", "invalid base URL")

\* normalize_base_url from Url::as_str on
normalize_str(base, str) ==
    IF normalize_base_url(str) = str THEN Ok(base)
    ELSE invalid_base(url_parse(normalize_base_url(str)))

\* normalize_base_url on a Url: the string with the slash added is parsed again
normalize_base(base) == normalize_str(base, url_as_str(base))

AgilesName == <<"a","g","i","l","e","s">>

\* Iterator::position, mutated: the last segment the predicate accepts
position_last(segments, name) ==
    LET hits == {i \in DOMAIN segments : eq_ignore_ascii_case(segments[i], name)}
    IN  IF hits = {} THEN None
        ELSE Some(CHOOSE i \in hits : \A h \in hits : h <= i)

\* Iterator::position: the first segment the predicate accepts (counted from 1)
position(segments, name) ==
    LET hits == {i \in DOMAIN segments : eq_ignore_ascii_case(segments[i], name)}
    IN  IF hits = {} THEN None
        ELSE Some(CHOOSE i \in hits : \A h \in hits : i <= h)

\* parse_board_url from the rebuilt base on: the base normalised, and the ids
board_triple(normal, agile_id, sprint_id) ==
    IF ~normal.ok THEN normal
    ELSE Ok([base |-> normal.v, agile_id |-> agile_id, sprint_id |-> sprint_id])

\* the path of the base: "/", or the segments before "agiles" between slashes
prefix_path(prefix_segments) ==
    IF prefix_segments = <<>> THEN <<"/">>
    ELSE <<"/">> \o join_segments(prefix_segments, "/") \o <<"/">>

\* parse_board_url from the position of "agiles" on
board_at(url, segments, agiles_index) ==
    IF ~agiles_index.some
    THEN Err("InvalidInput", "board URL must contain '/agiles/{agileId}/{sprintId}'")
    ELSE IF agiles_index.v + 1 > Len(segments)
    THEN Err("InvalidInput", "missing agile id segment")
    ELSE IF agiles_index.v + 2 > Len(segments)
    THEN Err("InvalidInput", "missing sprint id segment")
    ELSE board_triple(
            normalize_base(set_fragment_none(set_query_none(
                set_path(url, prefix_path(SubSeq(segments, 1, agiles_index.v - 1)))))),
            segments[agiles_index.v + 1],
            segments[agiles_index.v + 2])

\* parse_board_url from the segments on
board_of_segments(url, segments) ==
    board_at(url, segments, position(segments, AgilesName))

\* parse_board_url from the parsed URL on
board_of_parsed(parsed) ==
    IF ~parsed.ok THEN Err("InvalidInput", "invalid YouTrack board URL")
    ELSE board_of_segments(parsed.v, path_segments(parsed.v))

\* parse_board_url
parse_board_url(board_url) == board_of_parsed(url_parse(board_url))

---------------------------------------------------------------------------
(* The request handler's choice between the two input paths
   (routes/integrations.rs) and what the routine derives from its result *)

\* .map_err(|e| ApiError::BadRequest(e.to_string()))
bad_request(result) ==
    IF result.ok THEN result ELSE Err("BadRequest", result.msg)

\* the directly given triple, once the base is parsed
direct_triple(base, payload) ==
    IF ~base.ok THEN base
    ELSE Ok([base |-> base.v, agile_id |-> payload.agile_id.v,
             sprint_id |-> payload.sprint_id.v])

\* sync_youtrack_open up to the call of the routine: the (base, agile id, sprint
\* id) the request resolves to, or the BadRequest it is answered with
resolve_request(payload) ==
    IF payload.board_url.some
    THEN bad_request(parse_board_url(payload.board_url.v))
    ELSE IF ~payload.youtrack_base_url.some
    THEN Err("BadRequest", "missing youtrack_base_url")
    ELSE IF ~payload.agile_id.some
    THEN Err("BadRequest", "missing agile_id")
    ELSE IF ~payload.sprint_id.some
    THEN Err("BadRequest", "missing sprint_id")
    ELSE direct_triple(bad_request(url_parse(payload.youtrack_base_url.v)), payload)

\* youtrack_base.join(&format!("api/agiles/{agile_id}/sprints/{sprint_id}/issues"))
sprint_issues_url(youtrack_base, agile_id, sprint_id) ==
    join(youtrack_base, <<"a","p","i","/","a","g","i","l","e","s","/">> \o agile_id
                        \o <<"/","s","p","r","i","n","t","s","/">> \o sprint_id
                        \o <<"/","i","s","s","u","e","s">>)

\* what the routine works with on a normalised base: the base, the ids, the URL
\* its page requests go to and the URL it writes for issue A
working_on(base, agile_id, sprint_id) ==
    [base |-> base, agile_id |-> agile_id, sprint_id |-> sprint_id,
     request |-> sprint_issues_url(base, agile_id, sprint_id),
     issue |-> issue_url(base, <<"A">>)]

\* the routine's first line, and what it works with from there
working_normal(normal, resolved) ==
    IF ~normal.ok THEN normal
    ELSE Ok(working_on(url_as_str(normal.v), resolved.agile_id, resolved.sprint_id))

working(resolved) == working_normal(normalize_base(resolved.base), resolved)

\* the call of the routine, made when the request resolved
through_resolved(resolved) ==
    IF resolved.ok THEN working(resolved.v) ELSE resolved

\* a request from its input to what the routine works with
through(payload) == through_resolved(resolve_request(payload))

---------------------------------------------------------------------------
(* SpecUrl: parse_board_url on drawn strings, and the two input paths on drawn
   bases and ids *)

Prefixes == {
    <<"h","t","t","p",":","/","/","t">>,
    <<"h","t","t","p",":","/","/","t","/">>,
    <<"h","t","t","p",":","/","/","t","/","y">>,
    <<"h","t","t","p","s",":","/","/","h","o","s","t","/","y","o","u","t","r","a","c","k">> }
Spellings == {
    <<"a","g","i","l","e","s">>,
    <<"A","g","i","l","e","s">>,
    <<"a","g","i","l","e">> }
Tails == {
    <<>>,
    <<"/">>,
    <<"/","a">>,
    <<"/","a","/">>,
    <<"/","a","/","s">>,
    <<"/","a","/","s","/">>,
    <<"/","a","/","s","/","x">>,
    <<"/","/","s">>,
    <<"/","a","/","a","g","i","l","e","s","/","b","/","c">>,
    <<"/","6","5","-","5","2","/","6","6","-","1","5","5","4","6","7">> }
Suffixes == {
    <<>>,
    <<"?","x","=","1">>,
    <<"#","f">>,
    <<"?","x","=","1","#","f">> }
NotUrls == {
    <<>>,
    <<"t","/","a","g","i","l","e","s","/","a","/","s">>,
    <<"h","t","t","p",":","/","/">>,
    <<"a","g","i","l","e","s","/","a","/","s">> }

BoardUrls ==
    {p \o <<"/">> \o n \o t \o x :
        p \in Prefixes, n \in Spellings, t \in Tails, x \in Suffixes} \cup NotUrls

ParseArgs == {[f |-> "parse_board_url", board_url |-> u] : u \in BoardUrls}

Locations == {
    <<"h","t","t","p",":","/","/","t">>,
    <<"h","t","t","p",":","/","/","t","/","y">> }
Ids == {
    <<"a">>,
    <<"6","6">> }

\* a base URL given directly, and the board URL of the same location and ids
PathArgs ==
    {[f |-> "paths",
      youtrack_base_url |-> l \o s \o q \o r,
      agile_id |-> a,
      sprint_id |-> b,
      board_url |-> l \o <<"/">> \o AgilesName \o <<"/">> \o a \o <<"/">> \o b] :
        l \in Locations, s \in {<<>>, <<"/">>},
        q \in {<<>>, <<"?","x","=","1">>}, r \in {<<>>, <<"#","f">>},
        a \in Ids, b \in Ids}

InitUrl ==
    /\ store = <<>>
    /\ initial = store
    /\ inv = [p \in Procs |-> Idle]
    /\ prev = Returned(Idle)
    /\ odd_id = FALSE
    /\ arg \in ParseArgs \cup PathArgs
    /\ ret = None

ParseBoardUrl ==
    /\ arg.f = "parse_board_url"
    /\ ~ret.some
    /\ ret' = Some(parse_board_url(arg.board_url))
    /\ UNCHANGED <<store, initial, inv, prev, odd_id, arg>>

BothPaths ==
    /\ arg.f = "paths"
    /\ ~ret.some
    /\ ret' = Some([direct |-> through([board_url |-> None,
                                         youtrack_base_url |-> Some(arg.youtrack_base_url),
                                         agile_id |-> Some(arg.agile_id),
                                         sprint_id |-> Some(arg.sprint_id)]),
                    board |-> through([board_url |-> Some(arg.board_url),
                                        youtrack_base_url |-> None,
                                        agile_id |-> None,
                                        sprint_id |-> None])])
    /\ UNCHANGED <<store, initial, inv, prev, odd_id, arg>>

NextUrl ==
    \/ ParseBoardUrl
    \/ BothPaths

SpecUrl == InitUrl /\ [][NextUrl]_vars


---------------------------------------------------------------------------
(* C12, C13: parse_board_url *)

\* the segments of the argument's path, none when it is not a URL
ArgSegments ==
    IF url_parse(arg.board_url).ok THEN path_segments(url_parse(arg.board_url).v)
    ELSE <<>>

\* where the argument's path first holds "agiles"
ArgAgiles == position(ArgSegments, AgilesName)

\* the argument lacks the agile id or the sprint id after "agiles": the segment
\* is not there, or nothing stands in it
ArgMissingId ==
    /\ ArgAgiles.some
    /\ \/ Len(ArgSegments) < ArgAgiles.v + 2
       \/ ArgSegments[ArgAgiles.v + 1] = <<>>
       \/ ArgSegments[ArgAgiles.v + 2] = <<>>

\* C12 as stated: parse_board_url fails for every string that is not a URL, for
\* every URL without a segment "agiles", and for every URL in which the agile id
\* or the sprint id after "agiles" is missing, a URL ending in "agiles/{agileId}/"
\* included; it never returns an empty id.
C12_ParserFailures ==
    (ret.some /\ arg.f = "parse_board_url") =>
        /\ (~url_parse(arg.board_url).ok \/ ~ArgAgiles.some \/ ArgMissingId) => ~ret.v.ok
        /\ ret.v.ok => (ret.v.v.agile_id # <<>> /\ ret.v.v.sprint_id # <<>>)

\* the argument without its query and fragment
ArgLocation == SubSeq(arg.board_url, 1, find_any(arg.board_url, {"?", "#"}, 1) - 1)

\* C13: for a URL whose path holds "agiles" (in any case) and two more segments
\* after it, parse_board_url returns a base that is the start of the URL, ends
\* in "/", has no query, no fragment and no segment "agiles", and what follows
\* the base in the URL is "agiles", the returned agile id and the returned sprint
\* id, one segment each.
C13_ParserOutput ==
    (/\ ret.some /\ arg.f = "parse_board_url"
     /\ ArgAgiles.some /\ Len(ArgSegments) >= ArgAgiles.v + 2) =>
        /\ ret.v.ok
        /\ LET base == url_as_str(ret.v.v.base)
               rest == split(SubSeq(ArgLocation, Len(base) + 1, Len(ArgLocation)), "/")
           IN  /\ base[Len(base)] = "/"
               /\ \A i \in DOMAIN base : base[i] \notin {"?", "#"}
               /\ ~ret.v.v.base.query.some /\ ~ret.v.v.base.fragment.some
               /\ starts_with(ArgLocation, base)
               /\ \A piece \in {split(base, "/")[i] : i \in DOMAIN split(base, "/")} :
                      ~SameIgnoringCase(piece, AgilesName)
               /\ Len(rest) >= 3
               /\ SameIgnoringCase(rest[1], AgilesName)
               /\ ret.v.v.agile_id = rest[2]
               /\ ret.v.v.sprint_id = rest[3]

\* https://host/youtrack/agiles/65-52/66-155467?x=1 gives the base
\* https://host/youtrack/, the agile id 65-52 and the sprint id 66-155467
C13_Witness ==
    /\ ret.some /\ arg.f = "parse_board_url"
    /\ arg.board_url = 
        <<"h","t","t","p","s",":","/","/","h","o","s","t","/","y","o","u","t","r","a","c","k","/","a","g","i","l","e","s","/","6","5","-","5","2","/","6","6","-","1","5","5","4","6","7","?","x","=","1">>
    /\ ret.v.ok
    /\ url_as_str(ret.v.v.base) = <<"h","t","t","p","s",":","/","/","h","o","s","t","/","y","o","u","t","r","a","c","k","/">>
    /\ ret.v.v.agile_id = <<"6","5","-","5","2">>
    /\ ret.v.v.sprint_id = <<"6","6","-","1","5","5","4","6","7">>


---------------------------------------------------------------------------
(* C14: the two input paths *)

\* C14 as stated: a base URL with its ids given directly, and the board URL of
\* the same location and ids, make the routine work with the same base, the same
\* ids, the same page request URL and the same issue URLs.
C14_PathsEquivalent ==
    (ret.some /\ arg.f = "paths") => ret.v.direct = ret.v.board


---------------------------------------------------------------------------
(* SpecRoute: one request to POST /integrations/youtrack/open-sync *)

\* a token that holds a line feed
BadToken == <<"k", "\n">>

RoutePayloads ==
    {[board_url |-> bu, youtrack_base_url |-> yb, agile_id |-> ai, sprint_id |-> si,
      youtrack_token |-> tk, dry_run |-> d] :
        bu \in {None,
                Some(<<"h","t","t","p",":","/","/","t","/","y","/","a","g","i","l","e","s","/","a","/","6","6">>),
                Some(<<"h","t","t","p",":","/","/","t","/","y","/","a","/","6","6">>),
                Some(<<"t","/","a","g","i","l","e","s","/","a","/","6","6">>)},
        yb \in {None, Some(<<"h","t","t","p",":","/","/","t","/","y">>), Some(<<"t","/","y">>)},
        ai \in {None, Some(<<"a">>)},
        si \in {None, Some(<<"6","6">>)},
        tk \in {Token, BadToken},
        d \in BOOLEAN}

RouteArgs == {[f |-> "sync_youtrack_open", payload |-> p] : p \in RoutePayloads}

\* the sprints the tracker may hold when the request arrives
RouteSprints == {[kind |-> "case", n |-> k] : k \in 1..3}

InitRoute ==
    /\ store = <<>>
    /\ initial = store
    /\ inv = [p \in Procs |-> Idle]
    /\ prev = Returned(Idle)
    /\ odd_id = FALSE
    /\ arg \in RouteArgs
    /\ ret = None

\* the handler from the resolved input on: the BadRequest, or the call of the
\* routine up to its first await
HandleResolved(resolved) ==
    IF ~resolved.ok
    THEN /\ ret' = Some(resolved)
         /\ UNCHANGED <<store, initial, inv, prev, odd_id, arg>>
    ELSE \E sprint \in RouteSprints :
            Begin(1, Project, url_as_str(resolved.v.base), arg.payload.youtrack_token,
                  sprint, arg.payload.dry_run)

\* the request arrives
Handle ==
    /\ arg.f = "sync_youtrack_open"
    /\ ~ret.some
    /\ inv[1].pc = "idle"
    /\ HandleResolved(resolve_request(arg.payload))

\* .map_err(|e| ApiError::Upstream(e.to_string()))? and the response
respond(result) ==
    IF result.ok
    THEN Ok([open_issues_total |-> result.v.open_issues_total,
             created |-> result.v.created,
             skipped_existing |-> result.v.skipped_existing,
             dry_run |-> result.v.dry_run,
             created_titles |-> result.v.created_titles])
    ELSE Err("Upstream", result.msg)

\* the routine has returned: the handler answers
Respond ==
    /\ arg.f = "sync_youtrack_open"
    /\ ~ret.some
    /\ inv[1].pc \in {"done", "failed"}
    /\ ret' = Some(respond(inv[1].result.v))
    /\ UNCHANGED <<store, initial, inv, prev, odd_id, arg>>

NextRoute ==
    \/ Handle
    \/ FetchPageOk(1)
    \/ FetchPageFail(1)
    \/ Lookup(1)
    \/ LookupFail(1)
    \/ Create(1)
    \/ CreateFail(1)
    \/ Respond

SpecRoute == InitRoute /\ [][NextRoute]_vars

\* C11 as stated: a request that fails for its input (board URL, base URL,
\* missing field, token) is answered with BadRequest, and a request that fails
\* in the tracker or the store is answered with Upstream.
C11_ErrorMapping ==
    (ret.some /\ arg.f = "sync_youtrack_open" /\ ~ret.v.ok) =>
        ret.v.kind = (IF inv[1].pc = "idle" \/ inv[1].result.v.kind = "InvalidInput"
                      THEN "BadRequest" ELSE "Upstream")

=============================================================================
